---- MODULE Spec2Model ----
(***************************************************************************)
(* Adversarial game-tree search: Minimax, MinimaxAlphaBetaPrunning and     *)
(* MinimaxConcurrent (src/minimax.go, src/minimax_concurrent.go).          *)
(*                                                                         *)
(* A SearchNode is a finite game tree: a record                            *)
(*   [term  : what IsTerminal() returns,                                   *)
(*    score : what Score() returns,                                        *)
(*    kids  : the children its SearchNodeGenerator yields, in order, for   *)
(*            the side that moves at this node].                           *)
(* A search returns a reference to a node relative to the node it was      *)
(* called on: the node itself (path <<>>), its i-th child (path <<i>>), or *)
(* nil.                                                                    *)
(***************************************************************************)
EXTENDS Integers, Sequences, FiniteSets, TLC

\* ------------------------------------------------------------------ bounds
MaxScore == 1
MaxNodes == 5
MaxDepth == 3
MaxChain == 1
MaxKids == 2
MaxWorkers == 2
MaxOverflow == 1
MaxMarks == 1
MaxPieces == 3
MaxHistory == 1
MaxNils == 2
MaxPairPieces == 1

\* ------------------------------------------------- program constants
\* math.MinInt and math.MaxInt. Go's int is 32 or 64 bits wide depending on
\* the platform; the engine only compares scores, so the 32-bit values, which
\* TLC's integers can hold, stand for both.
MinInt == -2147483647 - 1
MaxInt == 2147483647
\* jobs := make(chan workerJob, workers*5)
QueueFactor == 5

\* ------------------------------------------------------------ game trees
Leaf(s) == [term |-> TRUE, score |-> s, kids |-> <<>>]
Inner(s, ks) == [term |-> FALSE, score |-> s, kids |-> ks]

Scores == 0..MaxScore

SeqUpTo(S, n) == UNION {[1..k -> S] : k \in 0..n}

\* The trees of at most n nodes. forests[m + 1] holds the sequences of trees
\* of m nodes in all; a tree of k nodes is a childless node, terminal or not,
\* or a non-terminal node over a sequence of k - 1 nodes.
\* A terminal node carries no children: no search expands it. A node with
\* children scores 0: a search reads its Score() only when the depth bound
\* stops there, where it behaves as the childless node of that score, and
\* those are present with every score.
TreesOfSize(k, forests) ==
  IF k = 1
  THEN {Leaf(s) : s \in Scores} \cup {Inner(s, <<>>) : s \in Scores}
  ELSE {Inner(0, ks) : ks \in forests[k]}

RECURSIVE Forests(_, _)
Forests(n, forests) ==
  IF Len(forests) > n
  THEN forests
  ELSE LET m == Len(forests)
           next == UNION {{<<t>> \o f : t \in TreesOfSize(k, forests),
                                        f \in forests[m - k + 1]} : k \in 1..m}
       IN Forests(n, Append(forests, next))

TreesUpTo(n) ==
  LET forests == Forests(n - 1, <<{<<>>}>>)
  IN UNION {TreesOfSize(k, forests) : k \in 1..n}

\* ------------------------------------------------------------- tic-tac-toe
\* const ( cross int = iota - 1; empty; circle )
cross == 0 - 1
empty == 0
circle == 1

\* tttNode{}: board [3][3]int, all empty. board[y][x] of the code is
\* board[y + 1][x + 1] here.
tttNode == <<<<empty, empty, empty>>, <<empty, empty, empty>>, <<empty, empty, empty>>>>

isInRow(a, b, c) == a # empty /\ a = b /\ b = c

\* One round of the loop of anyFullRow: row i, then column i.
anyFullRowAt(b, i) ==
  IF isInRow(b[i + 1][1], b[i + 1][2], b[i + 1][3]) THEN <<TRUE, b[i + 1][1]>>
  ELSE IF isInRow(b[1][i + 1], b[2][i + 1], b[3][i + 1]) THEN <<TRUE, b[1][i + 1]>>
  ELSE <<FALSE, empty>>

\* for i := 0; i < 3; i++ { ... }, then the two diagonals.
anyFullRow(b) ==
  IF anyFullRowAt(b, 0)[1] THEN anyFullRowAt(b, 0)
  ELSE IF anyFullRowAt(b, 1)[1] THEN anyFullRowAt(b, 1)
  ELSE IF anyFullRowAt(b, 2)[1] THEN anyFullRowAt(b, 2)
  ELSE IF isInRow(b[1][1], b[2][2], b[3][3]) \/ isInRow(b[3][1], b[2][2], b[1][3])
       THEN <<TRUE, b[2][2]>>
       ELSE <<FALSE, empty>>

tttCells == (1..3) \X (1..3)

numberEmptySquares(b) == Cardinality({c \in tttCells : b[c[1]][c[2]] = empty})

\* Faulty variant: a full row scores the same however many squares are empty.
tttScoreUnweighted(b) == anyFullRow(b)[2]

\* func (node tttNode) Score() int
tttScore(b) == anyFullRow(b)[2] * (numberEmptySquares(b) + 1)

\* func (node tttNode) IsTerminal() bool
tttIsTerminal(b) == anyFullRow(b)[1] \/ numberEmptySquares(b) = 0

\* symbol := map[bool]int{true: circle, false: cross}
tttSymbol(maximizing) == IF maximizing THEN circle ELSE cross

\* One invocation of the closure tttNode.SearchNodeGenerator() returns, with
\* the captured x and y as they are before it: the returned node (<<>> for
\* nil, <<board>> otherwise) and x and y as the invocation leaves them.
RECURSIVE tttGenerator(_, _, _, _)
tttGenerator(b, x, y, maximizing) ==
  IF y < 3
  THEN IF x < 3
       THEN IF b[y + 1][x + 1] = empty
            THEN [node |-> <<[b EXCEPT ![y + 1][x + 1] = tttSymbol(maximizing)]>>,
                  x |-> x + 1, y |-> y]
            ELSE tttGenerator(b, x + 1, y, maximizing)
       ELSE tttGenerator(b, 0, y + 1, maximizing)
  ELSE [node |-> <<>>, x |-> x, y |-> y]

\* The boards one closure yields when it is invoked with the same side until
\* it returns nil, in order, from the captured x and y on.
RECURSIVE tttChildren(_, _, _, _)
tttChildren(b, x, y, maximizing) ==
  LET r == tttGenerator(b, x, y, maximizing)
  IN IF r.node = <<>> THEN <<>>
     ELSE <<[board |-> r.node[1], side |-> ~maximizing]>>
            \o tttChildren(b, r.x, r.y, maximizing)

\* A tttNode as the SearchNode the searches see when they are called on it
\* with the side `maximizing`. Its children are kept as boards, each with the
\* side the search passes on to it, and become SearchNodes when a search
\* descends into them (Child).
tttSearchNode(b, maximizing) ==
  [term |-> tttIsTerminal(b), score |-> tttScore(b),
   kids |-> tttChildren(b, 0, 0, maximizing)]

\* ---------------------------------------------------------------- checkers
\* color indices, figure indices, directions on board
white == 0
black == 1
pawns == 0
kings == 1
whitePawnDir == 0 - 1
blackPawnDir == 1

\* A uint64 bitboard is the set of the indices 0..63 of its set bits.
isBit(num, index) == index \in num
clearBit(num, index) == num \ {index}
setBit(num, index) == clearBit(num, index) \cup {index}

\* type cNode struct { board [2][2]uint64; nodeHistory cNodeHistory }
\* board[figure][color]. nodeHistory, the map every node of a game shares, is
\* the set of the boards stored in it; a lookup goes by the board's mask.
cNode(board, nodeHistory) == [board |-> board, nodeHistory |-> nodeHistory]

\* cNodeEmpty().board
cEmptyBoard == [figure \in {pawns, kings} |-> [color \in {white, black} |-> {}]]

enemyColor(color) == IF color = white THEN black ELSE white

abs(val) == IF val < 0 THEN 0 - val ELSE val

\* Go's / and % truncate; the operands here are never negative.
offsetInBoard(index, offset) ==
  abs((index \div 8) - (abs(index + offset) \div 8))
    + abs((index % 8) - (abs(index + offset) % 8)) <= 2

placeOccupiedFigureColor(node, figure, color, index) ==
  isBit(node.board[figure][color], index)

placeOccupiedColor(node, color, index) ==
  isBit(node.board[pawns][color] \cup node.board[kings][color], index)

placeOccupied(node, index) ==
  placeOccupiedColor(node, white, index) \/ placeOccupiedColor(node, black, index)

boardMask(board) ==
  board[pawns][black] \cup board[kings][black] \cup board[pawns][white]
    \cup board[kings][white]

\* nodes, found := node.nodeHistory[searchNode.boardMask()], then the scan for
\* an equal board.
inNodeHistory(node, searchNode) ==
  \E b \in node.nodeHistory :
    boardMask(b) = boardMask(searchNode.board) /\ b = searchNode.board

upgradeToKing(node, color, index) ==
  IF /\ isBit(node.board[pawns][color], index)
     /\ \/ (color = black /\ index >= 56 /\ index < 64)
        \/ (color = white /\ index >= 0 /\ index < 8)
  THEN [node EXCEPT !.board[pawns][color] = clearBit(@, index),
                    !.board[kings][color] = setBit(@, index)]
  ELSE node

\* (bool, cNode): <<>> for false, <<the new node>> for true.
figureMove(node, figure, color, index, offset) ==
  IF index < 0 \/ index > 63 \/ index + offset < 0 \/ index + offset > 63
  THEN <<>>
  ELSE IF ~offsetInBoard(index, offset) \/ placeOccupied(node, index + offset)
  THEN <<>>
  ELSE LET clone == [node EXCEPT !.board[figure][color] =
                                   setBit(clearBit(@, index), index + offset)]
       IN <<upgradeToKing(clone, color, index + offset)>>

figureJump(node, figure, color, index, offset) ==
  IF index < 0 \/ index > 63 \/ index + 2 * offset < 0 \/ index + 2 * offset > 63
  THEN <<>>
  ELSE IF ~offsetInBoard(index, offset) \/ ~offsetInBoard(index + offset, offset)
  THEN <<>>
  ELSE IF \/ ~placeOccupiedColor(node, enemyColor(color), index + offset)
          \/ placeOccupied(node, index + 2 * offset)
  THEN <<>>
  ELSE LET enemyCol == enemyColor(color)
           c1 == [node EXCEPT !.board[figure][color] = clearBit(@, index)]
           c2 == [c1 EXCEPT !.board[pawns][enemyCol] = clearBit(@, index + offset)]
           c3 == [c2 EXCEPT !.board[kings][enemyCol] = clearBit(@, index + offset)]
           c4 == [c3 EXCEPT !.board[figure][color] = setBit(@, index + 2 * offset)]
       IN <<upgradeToKing(c4, color, index + 2 * offset)>>

\* for _, offset := range []int{7, 9}: the move, then the jump
generateFigureMoves(node, figure, color, index, dir) ==
  figureMove(node, figure, color, index, 7 * dir)
    \o figureJump(node, figure, color, index, 7 * dir)
    \o figureMove(node, figure, color, index, 9 * dir)
    \o figureJump(node, figure, color, index, 9 * dir)

generatePawnMoves(node, color, index, dir) ==
  generateFigureMoves(node, pawns, color, index, dir)

generateKingMoves(node, color, index) ==
  generateFigureMoves(node, kings, color, index, 0 - 1)
    \o generateFigureMoves(node, kings, color, index, 1)

\* for ; index < 64; index++ { ... }: the moves of the next figure of the
\* colour that has any, and the index after it.
RECURSIVE cGeneratorScan(_, _, _, _)
cGeneratorScan(node, color, pawnDir, index) ==
  IF index < 64
  THEN LET nodeQueue ==
             IF placeOccupiedFigureColor(node, pawns, color, index)
             THEN generatePawnMoves(node, color, index, pawnDir)
             ELSE IF placeOccupiedFigureColor(node, kings, color, index)
             THEN generateKingMoves(node, color, index)
             ELSE <<>>
       IN IF Len(nodeQueue) > 0
          THEN [nodeQueue |-> nodeQueue, index |-> index + 1]
          ELSE cGeneratorScan(node, color, pawnDir, index + 1)
  ELSE [nodeQueue |-> <<>>, index |-> index]

\* for len(nodeQueue) > 0 { ... }: the first queued node that is not in the
\* history, or nil when the queue runs out.
RECURSIVE cGeneratorPop(_, _)
cGeneratorPop(node, nodeQueue) ==
  IF Len(nodeQueue) > 0
  THEN IF ~inNodeHistory(node, Head(nodeQueue))
       THEN [node |-> <<Head(nodeQueue)>>, nodeQueue |-> Tail(nodeQueue)]
       ELSE cGeneratorPop(node, Tail(nodeQueue))
  ELSE [node |-> <<>>, nodeQueue |-> nodeQueue]

\* One invocation of the closure cNode.SearchNodeGenerator() returns, with the
\* captured nodeQueue and index as they are before it: the returned node
\* (<<>> for nil) and nodeQueue and index as the invocation leaves them.
cGenerator(node, nodeQueue, index, maximizing) ==
  LET filled == IF Len(nodeQueue) = 0
                THEN cGeneratorScan(node, IF maximizing THEN black ELSE white,
                                    IF maximizing THEN blackPawnDir ELSE whitePawnDir,
                                    index)
                ELSE [nodeQueue |-> nodeQueue, index |-> index]
      popped == cGeneratorPop(node, filled.nodeQueue)
  IN [node |-> popped.node, nodeQueue |-> popped.nodeQueue, index |-> filled.index]

\* ------------------------------------------------------- node references
Nil == [nil |-> TRUE, path |-> <<>>]
Ref(p) == [nil |-> FALSE, path |-> p]
Self == Ref(<<>>)

VARIABLE
  game          \* game scenario: [fn |-> "none"] if no game is played, otherwise
                \* fn, the search that chooses the moves; depths, the depth each
                \* side searches with; sn, <<the current board>> or <<>> when a
                \* search returned nil; maximizing, the side to move; i, the
                \* plies played

\* The node a one-step reference of node denotes. In a game of tic-tac-toe
\* the nodes are tttNodes, whose children are kept as boards (tttSearchNode).
Child(node, ref) ==
  LET kid == node.kids[ref.path[1]]
  IN IF game.fn = "none" THEN kid ELSE tttSearchNode(kid.board, kid.side)

\* type SearchNodeGenerator: the result of the (calls+1)-th invocation of the
\* closure node.SearchNodeGenerator() returned: the next child, or nil when
\* the children are exhausted.
SearchNodeGenerator(node, calls) ==
  IF calls < Len(node.kids) THEN Ref(<<calls + 1>>) ELSE Nil

\* Faulty variant: the two sentinels exchanged.
MinimaxInitScoreSwapped(maximizing) == IF maximizing THEN MaxInt ELSE MinInt

MinimaxInitScore(maximizing) == IF maximizing THEN MinInt ELSE MaxInt

\* ----------------------------------------------------------------- Minimax
\* A search result: the returned node, the returned score, and gens, the
\* number of generator invocations the call made (its own and its callees').
Result(n, s, g) == [node |-> n, score |-> s, gens |-> g]

MinimaxBaseCase(node, depth) == depth = 0 \/ node.term

\* Faulty variant: a child replaces the best only with a strictly better score.
MinimaxAcceptsStrict(maximizing, newScore, bestScore) ==
  (maximizing /\ newScore > bestScore) \/ (~maximizing /\ newScore < bestScore)

\* Faulty variant: every child replaces the best.
MinimaxAcceptsAlways(maximizing, newScore, bestScore) ==
  newScore >= bestScore \/ newScore <= bestScore

\* if (maximizing && newScore >= bestScore) || (!maximizing && newScore <= bestScore)
MinimaxAccepts(maximizing, newScore, bestScore) ==
  (maximizing /\ newScore >= bestScore) \/ (~maximizing /\ newScore <= bestScore)

RECURSIVE Minimax(_, _, _)
RECURSIVE MinimaxLoop(_, _, _, _, _, _)

\* The loop of Minimax from the (calls + 1)-th invocation of the generator on.
\* sub[k] is the recursive call on the k-th child,
\* Minimax(childNode, depth-1, !maximizing); the calls of one frame share no
\* state, so the frame hands them to its loop as a function of k.
MinimaxLoop(node, depth, maximizing, sub, calls, acc) ==
  LET childNode == SearchNodeGenerator(node, calls) IN
  IF childNode = Nil
  THEN Result(acc.node, acc.score, acc.gens + 1)
  ELSE LET r == sub[childNode.path[1]]
           newScore == r.score
           g == acc.gens + 1 + r.gens
       IN IF MinimaxAccepts(maximizing, newScore, acc.score)
          THEN MinimaxLoop(node, depth, maximizing, sub, calls + 1,
                           Result(childNode, newScore, g))
          ELSE MinimaxLoop(node, depth, maximizing, sub, calls + 1,
                           Result(acc.node, acc.score, g))

Minimax(node, depth, maximizing) ==
  IF MinimaxBaseCase(node, depth)
  THEN Result(Self, node.score, 0)
  ELSE MinimaxLoop(node, depth, maximizing,
                   [k \in 1..Len(node.kids) |->
                      Minimax(Child(node, Ref(<<k>>)), depth - 1, ~maximizing)],
                   0, Result(Nil, MinimaxInitScore(maximizing), 0))

\* ---------------------------------------------------------- alpha-beta
AlphaBetaBaseCase(node, depth) == depth <= 0 \/ node.term

\* Faulty variant: the minimizing side accepts as the maximizing side does.
AlphaBetaAcceptsMaxOnly(maximizing, newScore, alpha, beta) == newScore > alpha

AlphaBetaAccepts(maximizing, newScore, alpha, beta) ==
  IF maximizing THEN newScore > alpha ELSE newScore < beta

\* Faulty variant: the frame goes on when alpha equals beta.
AlphaBetaCutStrict(alpha, beta) == alpha > beta

\* Faulty variant: the comparison of the cut reversed.
AlphaBetaCutReversed(alpha, beta) == alpha <= beta

\* if alpha >= beta { break }
AlphaBetaCut(alpha, beta) == alpha >= beta

RECURSIVE minimaxAlphaBetaPrunningImpl(_, _, _, _, _)
RECURSIVE AlphaBetaLoop(_, _, _, _, _, _, _)

AlphaBetaLoop(node, depth, alpha, beta, maximizing, calls, acc) ==
  LET childNode == SearchNodeGenerator(node, calls) IN
  IF childNode = Nil
  THEN Result(acc.node, acc.score, acc.gens + 1)
  ELSE LET r == minimaxAlphaBetaPrunningImpl(Child(node, childNode), depth - 1,
                                             alpha, beta, ~maximizing)
           newScore == r.score
           g == acc.gens + 1 + r.gens
           accepted == AlphaBetaAccepts(maximizing, newScore, alpha, beta)
           alpha2 == IF maximizing /\ accepted THEN newScore ELSE alpha
           beta2 == IF ~maximizing /\ accepted THEN newScore ELSE beta
           acc2 == IF accepted THEN Result(childNode, newScore, g)
                   ELSE Result(acc.node, acc.score, g)
       IN IF AlphaBetaCut(alpha2, beta2)
          THEN acc2
          ELSE AlphaBetaLoop(node, depth, alpha2, beta2, maximizing, calls + 1, acc2)

minimaxAlphaBetaPrunningImpl(node, depth, alpha, beta, maximizing) ==
  IF AlphaBetaBaseCase(node, depth)
  THEN Result(Self, node.score, 0)
  ELSE AlphaBetaLoop(node, depth, alpha, beta, maximizing, 0,
                     Result(Nil, MinimaxInitScore(maximizing), 0))

MinimaxAlphaBetaPrunning(node, depth, maximizing) ==
  minimaxAlphaBetaPrunningImpl(node, depth, MinInt, MaxInt, maximizing)

\* ------------------------------------------------------------------ state
VARIABLES
  root, depth, maximizing, workers,  \* the arguments of the call
  mmRes, abRes,                      \* <<>> or <<what Minimax / alpha-beta returned>>
  mpc,          \* MinimaxConcurrent and, inlined, its consumer: position
  spawned,      \* number of worker goroutines started
  jobs, results,                     \* the buffered channels' contents
  jobsClosed, resultsClosed, totalJobsClosed,
  fpc,          \* feeder: "none" (not started), "gen", "sendJob", "sendTotal", "done"
  fcalls,       \* feeder: invocations of the root's generator so far
  childNode,    \* feeder: the child the generator returned last
  counter,      \* feeder: jobs sent so far
  wpc,          \* worker -> "none" (not started), "recv", "send", "done"
  wres,         \* worker -> the workerResult it is about to send
  best, numResults, numJobs,         \* consumer locals
  ret,          \* <<>> or <<what MinimaxConcurrent returned>>
  panicked,     \* a send on, or a close of, a closed channel happened
  reordered,    \* history: some result reached the consumer out of job order
  tieBroke,     \* history: the consumer's jobId rule replaced best
  taken,        \* history: the ids of the jobs the workers received, in order
  processed,    \* history: the results the consumer has processed
  announced,    \* history: the counts sent on totalJobs, in order
  gen,          \* generator scenario: [game |-> "none"] if none runs, otherwise
                \* the node SearchNodeGenerator() was called on (game, board and,
                \* for checkers, nodeHistory), the captured variables of the
                \* closure (x and y, or nodeQueue and index) and out, the
                \* history of what its invocations returned, in order
  ab            \* alpha-beta step by step: stack, the frames of
                \* minimaxAlphaBetaPrunningImpl, the caller first; ret, <<what
                \* the call that just returned returned>> or <<>>; called,
                \* MinimaxAlphaBetaPrunning has been called; lax, history: a
                \* child replaced the best without a strictly better score

inputVars == <<root, depth, maximizing, workers>>
seqVars == <<mmRes, abRes>>
chanVars == <<jobs, results, jobsClosed, resultsClosed, totalJobsClosed>>
feederVars == <<fpc, fcalls, childNode, counter>>
workerVars == <<wpc, wres>>
consumerVars == <<mpc, spawned, best, numResults, numJobs, ret>>
historyVars == <<reordered, tieBroke, taken, processed, announced>>
concVars == <<chanVars, feederVars, workerVars, consumerVars, panicked, historyVars>>
scenarioVars == <<gen, game, ab>>
vars == <<inputVars, seqVars, concVars, scenarioVars>>

\* ----------------------------------------------------------------- inputs
Depths == (0 - 1)..MaxDepth
Workers == 0..MaxWorkers
WorkerIds == 1..MaxWorkers

\* A non-terminal node with no successors, and chains of single successors
\* that end in one.
RECURSIVE Chain(_)
Chain(k) == IF k = 0 THEN Inner(0, <<>>) ELSE Inner(0, <<Chain(k - 1)>>)

KidMenu == {Leaf(s) : s \in Scores} \cup {Chain(k) : k \in 0..MaxChain}

\* Roots whose children come from KidMenu.
NarrowRoots ==
  {Leaf(s) : s \in Scores} \cup {Inner(0, ks) : ks \in SeqUpTo(KidMenu, MaxKids)}

\* A root with n equal children.
WideRoot(n) == Inner(0, [i \in 1..n |-> Leaf(0)])

\* Inputs with more children than the job queue of a single worker holds.
WideInputs ==
  {[root |-> WideRoot(QueueFactor + o), depth |-> 1, maximizing |-> m, workers |-> 1] :
     o \in 1..MaxOverflow, m \in BOOLEAN}

NarrowInputs ==
  [root : NarrowRoots, depth : Depths, maximizing : BOOLEAN, workers : Workers]

NoResult == [jobId |-> 0 - 1, node |-> Nil, score |-> 0]

InitRest ==
  /\ mmRes = <<>>
  /\ abRes = <<>>
  /\ mpc = "entry"
  /\ spawned = 0
  /\ jobs = <<>>
  /\ results = <<>>
  /\ jobsClosed = FALSE
  /\ resultsClosed = FALSE
  /\ totalJobsClosed = FALSE
  /\ fpc = "none"
  /\ fcalls = 0
  /\ childNode = Nil
  /\ counter = 0
  /\ wpc = [w \in WorkerIds |-> "none"]
  /\ wres = [w \in WorkerIds |-> NoResult]
  /\ best = NoResult
  /\ numResults = 0
  /\ numJobs = 0 - 1
  /\ ret = <<>>
  /\ panicked = FALSE
  /\ reordered = FALSE
  /\ tieBroke = FALSE
  /\ taken = <<>>
  /\ processed = {}
  /\ announced = <<>>

\* No generator scenario runs.
GenIdle == gen = [game |-> "none"]

\* No game is played.
GameIdle == game = [fn |-> "none"]

\* No alpha-beta search is followed step by step.
FrameIdle == ab = [stack |-> <<>>, ret |-> <<>>, called |-> FALSE, lax |-> FALSE]

InitInput(in) ==
  /\ root = in.root
  /\ depth = in.depth
  /\ maximizing = in.maximizing
  /\ workers = in.workers

Init == (\E in \in NarrowInputs \cup WideInputs : InitInput(in)) /\ InitRest /\ GenIdle /\ GameIdle /\ FrameIdle

\* The sequential searches take no worker count.
SeqInit ==
  /\ \E t \in TreesUpTo(MaxNodes), d \in Depths, m \in BOOLEAN :
        InitInput([root |-> t, depth |-> d, maximizing |-> m, workers |-> 1])
  /\ InitRest
  /\ GenIdle
  /\ GameIdle
  /\ FrameIdle

\* ------------------------------------------------- the sequential searches
CallMinimax ==
  /\ mmRes = <<>>
  /\ mmRes' = <<Minimax(root, depth, maximizing)>>
  /\ UNCHANGED <<inputVars, abRes, concVars, scenarioVars>>

CallMinimaxAlphaBetaPrunning ==
  /\ abRes = <<>>
  /\ abRes' = <<MinimaxAlphaBetaPrunning(root, depth, maximizing)>>
  /\ UNCHANGED <<inputVars, mmRes, concVars, scenarioVars>>

SeqNext == CallMinimax \/ CallMinimaxAlphaBetaPrunning

SeqSpec == SeqInit /\ [][SeqNext]_vars

\* --------------------------------- minimaxAlphaBetaPrunningImpl step by step
\* The frame of a call that passed the base case: its arguments, its locals
\* and where it stands. calls counts the invocations of its generator.
\*   "generate": at childNode := generator(maximizing)
\*   "call":     at the recursive call on childNode
\*   "update":   the recursive call is running or has returned into ab.ret
\*   "return":   after a break, at return bestNode, bestScore
Frame(node, d, alpha, beta, m) ==
  [node |-> node, depth |-> d, alpha |-> alpha, beta |-> beta, maximizing |-> m,
   calls |-> 0, childNode |-> Nil, bestNode |-> Nil,
   bestScore |-> MinimaxInitScore(m), pc |-> "generate"]

Top == ab.stack[Len(ab.stack)]
SetTop(f) == [ab.stack EXCEPT ![Len(ab.stack)] = f]

\* return minimaxAlphaBetaPrunningImpl(node, depth, alpha, beta, maximizing)
\* with alpha, beta = math.MinInt, math.MaxInt, up to the base case.
CallMinimaxAlphaBetaPrunningImpl ==
  /\ ~ab.called
  /\ ab' = IF AlphaBetaBaseCase(root, depth)
           THEN [ab EXCEPT !.called = TRUE,
                           !.ret = <<[node |-> Self, score |-> root.score]>>]
           ELSE [ab EXCEPT !.called = TRUE,
                           !.stack = <<Frame(root, depth, MinInt, MaxInt, maximizing)>>]
  /\ UNCHANGED <<inputVars, seqVars, concVars, gen, game>>

\* childNode := generator(maximizing); if childNode == nil { break }
FrameGenerate ==
  /\ ab.stack # <<>>
  /\ Top.pc = "generate"
  /\ LET c == SearchNodeGenerator(Top.node, Top.calls)
     IN ab' = [ab EXCEPT !.stack =
                 SetTop([Top EXCEPT !.calls = @ + 1, !.childNode = c,
                                    !.pc = IF c = Nil THEN "return" ELSE "call"])]
  /\ UNCHANGED <<inputVars, seqVars, concVars, gen, game>>

\* minimaxAlphaBetaPrunningImpl(childNode, depth-1, alpha, beta, !maximizing)
\* up to the base case of the callee.
FrameCall ==
  /\ ab.stack # <<>>
  /\ Top.pc = "call"
  /\ LET f == Top
         kid == Child(f.node, f.childNode)
         waiting == SetTop([f EXCEPT !.pc = "update"])
     IN ab' = IF AlphaBetaBaseCase(kid, f.depth - 1)
              THEN [ab EXCEPT !.stack = waiting,
                              !.ret = <<[node |-> Self, score |-> kid.score]>>]
              ELSE [ab EXCEPT !.stack = Append(waiting,
                                               Frame(kid, f.depth - 1, f.alpha, f.beta,
                                                     ~f.maximizing)),
                              !.ret = <<>>]
  /\ UNCHANGED <<inputVars, seqVars, concVars, gen, game>>

\* _, newScore := <the call>; the if on maximizing; if alpha >= beta { break }
FrameUpdate ==
  /\ ab.stack # <<>>
  /\ Top.pc = "update"
  /\ ab.ret # <<>>
  /\ LET f == Top
         newScore == ab.ret[1].score
         accepted == AlphaBetaAccepts(f.maximizing, newScore, f.alpha, f.beta)
         alpha2 == IF f.maximizing /\ accepted THEN newScore ELSE f.alpha
         beta2 == IF ~f.maximizing /\ accepted THEN newScore ELSE f.beta
     IN ab' = [ab EXCEPT
                 !.stack = SetTop([f EXCEPT
                                     !.alpha = alpha2, !.beta = beta2,
                                     !.bestNode = IF accepted THEN f.childNode ELSE @,
                                     !.bestScore = IF accepted THEN newScore ELSE @,
                                     !.pc = IF AlphaBetaCut(alpha2, beta2)
                                            THEN "return" ELSE "generate"]),
                 !.ret = <<>>,
                 !.lax = (@ \/ (accepted /\ f.maximizing /\ ~(newScore > f.alpha))
                            \/ (accepted /\ ~f.maximizing /\ ~(newScore < f.beta)))]
  /\ UNCHANGED <<inputVars, seqVars, concVars, gen, game>>

\* return bestNode, bestScore
FrameReturn ==
  /\ ab.stack # <<>>
  /\ Top.pc = "return"
  /\ ab' = [ab EXCEPT !.ret = <<[node |-> Top.bestNode, score |-> Top.bestScore]>>,
                      !.stack = SubSeq(ab.stack, 1, Len(ab.stack) - 1)]
  /\ UNCHANGED <<inputVars, seqVars, concVars, gen, game>>

FrameNext ==
  \/ CallMinimaxAlphaBetaPrunningImpl
  \/ FrameGenerate
  \/ FrameCall
  \/ FrameUpdate
  \/ FrameReturn

FrameSpec == SeqInit /\ [][FrameNext]_vars

\* ------------------------------------------------------ MinimaxConcurrent
\* Faulty variant: the queues hold one element more.
CapacityOneMore == workers * QueueFactor + 1

\* Faulty variant: a queue holds at least one element.
CapacityAtLeastOne == IF workers = 0 THEN 1 ELSE workers * QueueFactor

\* make(chan workerJob, workers*5), make(chan workerResult, workers*5)
Capacity == workers * QueueFactor

\* Faulty variant: the depth bound is not looked at.
ConcurrentBaseCaseTerminalOnly(node, d) == node.term

\* if depth == 0 || node.IsTerminal()
ConcurrentBaseCase(node, d) == d = 0 \/ node.term

\* MinimaxConcurrent, base case: return node, node.Score()
ReturnBase ==
  /\ mpc = "entry"
  /\ ConcurrentBaseCase(root, depth)
  /\ mpc' = "done"
  /\ ret' = <<[node |-> Self, score |-> root.score]>>
  /\ UNCHANGED <<historyVars, inputVars, seqVars, scenarioVars, chanVars, feederVars, workerVars,
                 spawned, best, numResults, numJobs, panicked>>

\* MinimaxConcurrent, otherwise: make the two queues and enter the spawn loop.
Setup ==
  /\ mpc = "entry"
  /\ ~ConcurrentBaseCase(root, depth)
  /\ mpc' = "spawn"
  /\ UNCHANGED <<historyVars, inputVars, seqVars, scenarioVars, chanVars, feederVars, workerVars,
                 spawned, best, numResults, numJobs, ret, panicked>>

\* for i := 0; i < workers; i++ { go minimaxConcurrentWorker(jobs, results) }
SpawnWorker ==
  /\ mpc = "spawn"
  /\ spawned < workers
  /\ spawned' = spawned + 1
  /\ wpc' = [wpc EXCEPT ![spawned + 1] = "recv"]
  /\ UNCHANGED <<historyVars, inputVars, seqVars, scenarioVars, chanVars, feederVars, wres,
                 mpc, best, numResults, numJobs, ret, panicked>>

\* go minimaxConcurrentFeeder(...); the caller enters minimaxConcurrentConsumer:
\* best := workerResult{-1, nil, MinimaxInitScore(maximizing)}; numResults, numJobs := 0, -1
SpawnFeeder ==
  /\ mpc = "spawn"
  /\ spawned >= workers
  /\ fpc' = "gen"
  /\ mpc' = "select"
  /\ best' = [jobId |-> 0 - 1, node |-> Nil, score |-> MinimaxInitScore(maximizing)]
  /\ numResults' = 0
  /\ numJobs' = 0 - 1
  /\ UNCHANGED <<historyVars, inputVars, seqVars, scenarioVars, chanVars, fcalls, childNode, counter,
                 workerVars, spawned, ret, panicked>>

\* ------------------------------------------------------------------ feeder
\* childNode := generator(maximizing)
FeederGenerate ==
  /\ fpc = "gen"
  /\ ~panicked
  /\ childNode' = SearchNodeGenerator(root, fcalls)
  /\ fcalls' = fcalls + 1
  /\ fpc' = IF childNode' = Nil THEN "sendTotal" ELSE "sendJob"
  /\ UNCHANGED <<historyVars, inputVars, seqVars, scenarioVars, chanVars, counter, workerVars,
                 consumerVars, panicked>>

\* Faulty variant: the ids start at one.
workerJobFromOne(id, node, d, m) ==
  [id |-> id + 1, node |-> node, depth |-> d, maximizing |-> m]

\* Faulty variant: the job keeps the side of the root.
workerJobSameSide(id, node, d, m) ==
  [id |-> id, node |-> node, depth |-> d, maximizing |-> ~m]

\* workerJob{id, node, depth, maximizing}
workerJob(id, node, d, m) == [id |-> id, node |-> node, depth |-> d, maximizing |-> m]

\* jobs <- workerJob{counter, childNode, depth - 1, !maximizing}; counter++
\* The send blocks while the queue is full and panics on a closed queue.
FeederSendJob ==
  /\ fpc = "sendJob"
  /\ ~panicked
  /\ IF jobsClosed
     THEN /\ panicked' = TRUE
          /\ UNCHANGED <<jobs, counter, fpc>>
     ELSE /\ Len(jobs) < Capacity
          /\ jobs' = Append(jobs, workerJob(counter, childNode, depth - 1, ~maximizing))
          /\ counter' = counter + 1
          /\ fpc' = "gen"
          /\ UNCHANGED panicked
  /\ UNCHANGED <<reordered, tieBroke, taken, processed, announced, inputVars, seqVars, scenarioVars, results, jobsClosed, resultsClosed,
                 totalJobsClosed, fcalls, childNode, workerVars, consumerVars>>

\* ----------------------------------------------------------------- workers
workerResult(jobId, node, score) == [jobId |-> jobId, node |-> node, score |-> score]

\* _, score := MinimaxAlphaBetaPrunning(job.node, job.depth, job.maximizing)
\* The score is a function of the job alone. A call made by a game evaluates
\* it once for each child of the root, with the depth and the side its jobs
\* carry, and keeps the values in game.scores; a worker that solves such a job
\* finds its value there.
JobScore(job) ==
  IF game.fn # "none" /\ job.depth = depth - 1 /\ job.maximizing = ~maximizing
  THEN game.scores[job.node.path[1]]
  ELSE MinimaxAlphaBetaPrunning(Child(root, job.node), job.depth, job.maximizing).score

\* for job := range jobs: take the next job and solve it:
\* _, score := MinimaxAlphaBetaPrunning(job.node, job.depth, job.maximizing)
WorkerReceive(w) ==
  /\ wpc[w] = "recv"
  /\ ~panicked
  /\ jobs # <<>>
  /\ LET job == Head(jobs)
     IN wres' = [wres EXCEPT ![w] = workerResult(job.id, job.node, JobScore(job))]
  /\ jobs' = Tail(jobs)
  /\ wpc' = [wpc EXCEPT ![w] = "send"]
  /\ taken' = Append(taken, Head(jobs).id)
  /\ UNCHANGED <<reordered, tieBroke, processed, announced, inputVars, seqVars, scenarioVars, results, jobsClosed, resultsClosed,
                 totalJobsClosed, feederVars, consumerVars, panicked>>

\* results <- workerResult{job.id, job.node, score}
WorkerSend(w) ==
  /\ wpc[w] = "send"
  /\ ~panicked
  /\ IF resultsClosed
     THEN /\ panicked' = TRUE
          /\ UNCHANGED <<results, wpc, wres>>
     ELSE /\ Len(results) < Capacity
          /\ results' = Append(results, wres[w])
          /\ wpc' = [wpc EXCEPT ![w] = "recv"]
          /\ wres' = [wres EXCEPT ![w] = NoResult]
          /\ UNCHANGED panicked
  /\ UNCHANGED <<historyVars, inputVars, seqVars, scenarioVars, jobs, jobsClosed, resultsClosed,
                 totalJobsClosed, feederVars, consumerVars>>

\* for job := range jobs ends: the queue is closed and drained.
WorkerExit(w) ==
  /\ wpc[w] = "recv"
  /\ ~panicked
  /\ jobs = <<>>
  /\ jobsClosed
  /\ wpc' = [wpc EXCEPT ![w] = "done"]
  /\ UNCHANGED <<historyVars, inputVars, seqVars, scenarioVars, chanVars, feederVars, wres,
                 consumerVars, panicked>>

\* ---------------------------------------------------------------- consumer
\* Faulty variant: the side is ignored, higher always wins.
ConsumerBetterMaxOnly(m, result, b) == result.score > b.score

\* if (maximizing && result.score > best.score) || (!maximizing && result.score < best.score)
ConsumerBetter(m, result, b) ==
  (m /\ result.score > b.score) \/ (~m /\ result.score < b.score)

\* Faulty variant: no tie-break, the first equal score to arrive stays.
ConsumerNoTieBreak(result, b) == FALSE

\* Faulty variant: among equal scores the larger id wins.
ConsumerTieBreakLargerId(result, b) == result.score = b.score /\ result.jobId > b.jobId

\* if result.score == best.score && result.jobId < best.jobId
ConsumerTieBreak(result, b) == result.score = b.score /\ result.jobId < b.jobId

\* The two ifs of case result := <-results, in order.
ConsumerUpdate(m, result, b) ==
  LET b1 == IF ConsumerBetter(m, result, b) THEN result ELSE b
  IN IF ConsumerTieBreak(result, b1) THEN result ELSE b1

\* The second if replaced best.
ConsumerTieBroke(m, result, b) ==
  ConsumerTieBreak(result, IF ConsumerBetter(m, result, b) THEN result ELSE b)

\* Faulty variant: an announced count of zero is not taken for an announcement.
ConsumerFinishedPositive(nJobs, nResults) == nJobs > 0 /\ nResults = nJobs

\* Faulty variant: the consumer stops one result short of the announced count.
ConsumerFinishedOneShort(nJobs, nResults) == nJobs >= 0 /\ nResults + 1 >= nJobs

\* Faulty variant: the consumer stops as soon as the count is announced.
ConsumerFinishedAnnounced(nJobs, nResults) == nJobs >= 0

\* if numJobs >= 0 && numResults == numJobs
ConsumerFinished(nJobs, nResults) == nJobs >= 0 /\ nResults = nJobs

\* case result := <-results
ConsumerReceiveResult ==
  /\ mpc = "select"
  /\ ~panicked
  /\ results # <<>>
  /\ best' = ConsumerUpdate(maximizing, Head(results), best)
  /\ reordered' = (reordered \/ Head(results).jobId # numResults)
  /\ tieBroke' = (tieBroke \/ ConsumerTieBroke(maximizing, Head(results), best))
  /\ processed' = processed \cup {Head(results)}
  /\ results' = Tail(results)
  /\ numResults' = numResults + 1
  /\ mpc' = IF ConsumerFinished(numJobs, numResults') THEN "closeJobs" ELSE "select"
  /\ UNCHANGED <<taken, announced, inputVars, seqVars, scenarioVars, jobs, jobsClosed, resultsClosed,
                 totalJobsClosed, feederVars, workerVars, spawned, numJobs, ret, panicked>>

\* case numJobs = <-totalJobs, meeting the feeder's totalJobs <- counter; return
\* (the channel is unbuffered: the send and the receive are one step).
ConsumerReceiveTotal ==
  /\ mpc = "select"
  /\ fpc = "sendTotal"
  /\ ~panicked
  /\ numJobs' = counter
  /\ announced' = Append(announced, counter)
  /\ fpc' = "done"
  /\ mpc' = IF ConsumerFinished(numJobs', numResults) THEN "closeJobs" ELSE "select"
  /\ UNCHANGED <<reordered, tieBroke, taken, processed, inputVars, seqVars, scenarioVars, chanVars, fcalls, childNode, counter,
                 workerVars, spawned, best, numResults, ret, panicked>>

\* Faulty variant: the job queue is left open.
ConsumerSkipCloseJobs ==
  /\ mpc = "closeJobs"
  /\ ~panicked
  /\ mpc' = "closeResults"
  /\ UNCHANGED <<historyVars, inputVars, seqVars, scenarioVars, chanVars, feederVars, workerVars,
                 spawned, best, numResults, numJobs, ret, panicked>>

\* close(jobs)
ConsumerCloseJobs ==
  /\ mpc = "closeJobs"
  /\ ~panicked
  /\ IF jobsClosed
     THEN panicked' = TRUE /\ UNCHANGED <<jobsClosed, mpc>>
     ELSE jobsClosed' = TRUE /\ mpc' = "closeResults" /\ UNCHANGED panicked
  /\ UNCHANGED <<historyVars, inputVars, seqVars, scenarioVars, jobs, results, resultsClosed, totalJobsClosed,
                 feederVars, workerVars, spawned, best, numResults, numJobs, ret>>

\* close(results)
ConsumerCloseResults ==
  /\ mpc = "closeResults"
  /\ ~panicked
  /\ IF resultsClosed
     THEN panicked' = TRUE /\ UNCHANGED <<resultsClosed, mpc>>
     ELSE resultsClosed' = TRUE /\ mpc' = "closeTotalJobs" /\ UNCHANGED panicked
  /\ UNCHANGED <<historyVars, inputVars, seqVars, scenarioVars, jobs, results, jobsClosed, totalJobsClosed,
                 feederVars, workerVars, spawned, best, numResults, numJobs, ret>>

\* close(totalJobs); return best.node, best.score
ConsumerReturn ==
  /\ mpc = "closeTotalJobs"
  /\ ~panicked
  /\ IF totalJobsClosed \/ fpc = "sendTotal"
     THEN panicked' = TRUE /\ UNCHANGED <<totalJobsClosed, mpc, ret>>
     ELSE /\ totalJobsClosed' = TRUE
          /\ mpc' = "done"
          /\ ret' = <<[node |-> best.node, score |-> best.score]>>
          /\ UNCHANGED panicked
  /\ UNCHANGED <<historyVars, inputVars, seqVars, scenarioVars, jobs, results, jobsClosed, resultsClosed,
                 feederVars, workerVars, spawned, best, numResults, numJobs>>

Next ==
  \/ ReturnBase
  \/ Setup
  \/ SpawnWorker
  \/ SpawnFeeder
  \/ FeederGenerate
  \/ FeederSendJob
  \/ \E w \in WorkerIds : WorkerReceive(w)
  \/ \E w \in WorkerIds : WorkerSend(w)
  \/ \E w \in WorkerIds : WorkerExit(w)
  \/ ConsumerReceiveResult
  \/ ConsumerReceiveTotal
  \/ ConsumerCloseJobs
  \/ ConsumerCloseResults
  \/ ConsumerReturn

Spec == Init /\ [][Next]_vars

\* The scheduler lets some enabled goroutine run.
FairSpec == Spec /\ WF_vars(Next)

\* ------------------------------------------- the generators of the two games
\* The tic-tac-toe boards with at most n marks.
RECURSIVE TttBoards(_)
TttBoards(n) ==
  IF n = 0 THEN {tttNode}
  ELSE LET prev == TttBoards(n - 1)
       IN prev \cup {[b EXCEPT ![c[1]][c[2]] = sy] :
                       b \in prev, c \in tttCells, sy \in {cross, circle}}

\* The squares the checkers inputs have figures on: the top-left corner of
\* the board.
CSquares == {0, 2, 9, 11}

\* The checkers boards with at most n figures, all on CSquares.
RECURSIVE CBoards(_)
CBoards(n) ==
  IF n = 0 THEN {cEmptyBoard}
  ELSE LET prev == CBoards(n - 1)
           free == {t \in prev \X {pawns, kings} \X {white, black} \X CSquares :
                      ~isBit(boardMask(t[1]), t[4])}
       IN prev \cup {[t[1] EXCEPT ![t[2]][t[3]] = setBit(@, t[4])] : t \in free}

\* The boards one move of either colour away from a board.
CSuccessors(board) ==
  LET node == cNode(board, {})
      moves == [t \in {white, black} \X (0..63) |->
                  generatePawnMoves(node, t[1], t[2],
                                    IF t[1] = black THEN blackPawnDir ELSE whitePawnDir)
                    \o generateKingMoves(node, t[1], t[2])]
  IN UNION {{moves[t][i].board : i \in 1..Len(moves[t])} :
              t \in {u \in DOMAIN moves : placeOccupiedColor(node, u[1], u[2])}}

\* The checkers nodes with at most n figures and a history of at most h of
\* the boards a move leads to.
CNodes(n, h) ==
  UNION {{cNode(board, k) : k \in {j \in SUBSET CSuccessors(board) :
                                     Cardinality(j) <= h}} :
           board \in CBoards(n)}

\* No search runs.
NoCall == InitInput([root |-> Leaf(0), depth |-> 0, maximizing |-> FALSE, workers |-> 0])

\* generator := node.SearchNodeGenerator(): x, y := 0, 0, respectively
\* var nodeQueue []cNode; index := 0
GenInit ==
  /\ \/ \E b \in TttBoards(MaxMarks) :
          gen = [game |-> "ttt", board |-> b, x |-> 0, y |-> 0, out |-> <<>>]
     \/ \E n \in CNodes(MaxPieces, MaxHistory) :
          gen = [game |-> "checkers", board |-> n.board, nodeHistory |-> n.nodeHistory,
                 nodeQueue |-> <<>>, index |-> 0, out |-> <<>>]
  /\ GameIdle
  /\ FrameIdle
  /\ NoCall
  /\ InitRest

\* The number of invocations that returned nil so far.
GenNils == Cardinality({i \in 1..Len(gen.out) : gen.out[i] = <<>>})

\* generator(maximizing) on a tic-tac-toe closure
tttGeneratorInvoke ==
  /\ gen.game = "ttt"
  /\ GenNils < MaxNils
  /\ \E m \in BOOLEAN :
       LET r == tttGenerator(gen.board, gen.x, gen.y, m)
       IN gen' = [gen EXCEPT !.x = r.x, !.y = r.y, !.out = Append(@, r.node)]
  /\ UNCHANGED <<game, ab, inputVars, seqVars, concVars>>

\* generator(maximizing) on a checkers closure
cGeneratorInvoke ==
  /\ gen.game = "checkers"
  /\ GenNils < MaxNils
  /\ \E m \in BOOLEAN :
       LET r == cGenerator(cNode(gen.board, gen.nodeHistory), gen.nodeQueue, gen.index, m)
       IN gen' = [gen EXCEPT !.nodeQueue = r.nodeQueue, !.index = r.index,
                             !.out = Append(@, [i \in 1..Len(r.node) |-> r.node[i].board])]
  /\ UNCHANGED <<game, ab, inputVars, seqVars, concVars>>

GenNext == tttGeneratorInvoke \/ cGeneratorInvoke

GenSpec == GenInit /\ [][GenNext]_vars

\* ---------------------------------------- two generators of the same state
\* A state of one of the games hands out two generators, and the invocations
\* of the two are interleaved. gen holds state, the state the generators were
\* obtained from; side, the argument of every invocation; cells, the captured
\* variables the calls of SearchNodeGenerator() allocated (the copy of the
\* receiver, and x and y, or nodeQueue and index); outs, for each generator
\* what its invocations returned, in order.

\* Faulty variant: every closure works on the variables of the first one.
ClosureCellShared(i) == 1

\* The variables closure i captured: x, y := 0, 0, respectively
\* var nodeQueue []cNode; index := 0, are local to the call of
\* SearchNodeGenerator() that made the closure.
ClosureCell(i) == i

Generators == {1, 2}

PairInit ==
  /\ \E m \in BOOLEAN :
       \/ \E b \in TttBoards(MaxMarks) :
            gen = [game |-> "ttt", state |-> b, side |-> m,
                   cells |-> [i \in Generators |-> [node |-> b, x |-> 0, y |-> 0]],
                   outs |-> [i \in Generators |-> <<>>]]
       \/ \E n \in CNodes(MaxPairPieces, MaxHistory) :
            gen = [game |-> "checkers", state |-> n, side |-> m,
                   cells |-> [i \in Generators |->
                                [node |-> n, nodeQueue |-> <<>>, index |-> 0]],
                   outs |-> [i \in Generators |-> <<>>]]
  /\ GameIdle
  /\ FrameIdle
  /\ NoCall
  /\ InitRest

\* The number of invocations of generator i that returned nil so far.
PairNils(i) == Cardinality({k \in 1..Len(gen.outs[i]) : gen.outs[i][k] = <<>>})

\* generator(maximizing) on the i-th tic-tac-toe closure
tttPairInvoke(i) ==
  /\ gen.game = "ttt"
  /\ PairNils(i) < MaxNils
  /\ LET c == gen.cells[ClosureCell(i)]
         r == tttGenerator(c.node, c.x, c.y, gen.side)
     IN gen' = [gen EXCEPT !.cells[ClosureCell(i)] = [c EXCEPT !.x = r.x, !.y = r.y],
                           !.outs[i] = Append(@, r.node)]
  /\ UNCHANGED <<game, ab, inputVars, seqVars, concVars>>

\* generator(maximizing) on the i-th checkers closure
cPairInvoke(i) ==
  /\ gen.game = "checkers"
  /\ PairNils(i) < MaxNils
  /\ LET c == gen.cells[ClosureCell(i)]
         r == cGenerator(c.node, c.nodeQueue, c.index, gen.side)
     IN gen' = [gen EXCEPT !.cells[ClosureCell(i)] =
                             [c EXCEPT !.nodeQueue = r.nodeQueue, !.index = r.index],
                           !.outs[i] = Append(@, r.node)]
  /\ UNCHANGED <<game, ab, inputVars, seqVars, concVars>>

PairNext ==
  \/ \E i \in Generators : tttPairInvoke(i)
  \/ \E i \in Generators : cPairInvoke(i)

PairSpec == PairInit /\ [][PairNext]_vars

\* ------------------------------------------------------- claim vocabulary
Returned == ret # <<>>
Sentinel == IF maximizing THEN MinInt ELSE MaxInt
BaseInput == depth = 0 \/ root.term
Pair(n, s) == [node |-> n, score |-> s]
PairOf(r) == [node |-> r.node, score |-> r.score]

\* What the consumer ends with when the results arrive in job order.
RECURSIVE InOrderBest(_, _)
InOrderBest(k, b) ==
  IF k >= Len(root.kids) THEN b
  ELSE InOrderBest(k + 1,
         ConsumerUpdate(maximizing,
           workerResult(k, Ref(<<k + 1>>),
             MinimaxAlphaBetaPrunning(root.kids[k + 1], depth - 1, ~maximizing).score),
           b))

\* ------------------------------------------------ games of tic-tac-toe
\* for i := 0; i < 9; i++
TttPlies == 9

\* The depth of a full search of the 3x3 board.
TttFullDepth == 9

\* depths: map[bool]uint{false: 9, true: 1} and {false: 9, true: 2}
TttCircleDepths == {1, 2}

\* runTest(_, {false: 9, true: 1}, 5) and runTest(_, {false: 9, true: 2}, 7)
TttMoves(dc) == IF dc = 1 THEN 5 ELSE 7

\* return MinimaxConcurrent(node, depth, maximizing, 2)
TttWorkers == 2

TttSequential == {"Minimax", "MinimaxAlphaBetaPrunning"}

TttChoosers == TttSequential \cup {"MinimaxConcurrent"}

\* minimaxFn(node, d, m) of a search that starts no goroutine.
TttChoose(fn, node, d, m) ==
  IF fn = "Minimax" THEN PairOf(Minimax(node, d, m))
  ELSE PairOf(MinimaxAlphaBetaPrunning(node, d, m))

\* newNode of the pair a search of node returned, as sn holds it: the board b
\* of node for node itself, <<>> for nil.
TttNewNode(node, b, newNode) ==
  IF newNode = Nil THEN <<>>
  ELSE IF newNode = Self THEN <<b>>
  ELSE <<node.kids[newNode.path[1]].board>>

\* The scores of the jobs of MinimaxConcurrent(node, d, m, _): job k searches
\* the k-th child with MinimaxAlphaBetaPrunning(job.node, d - 1, !m).
TttJobScores(node, d, m) ==
  [k \in 1..Len(node.kids) |->
     MinimaxAlphaBetaPrunning(Child(node, Ref(<<k>>)), d - 1, ~m).score]

\* A game as it starts: var sn SearchNode = tttNode{}; maximizing := m; i := 0.
\* pc is "loop" between two passes and "call" inside MinimaxConcurrent;
\* lingering counts the workers of the calls that have returned which have not
\* left their loop yet.
TttGame(fn, dc, m, moves) ==
  [fn |-> fn,
   depths |-> [side \in BOOLEAN |-> IF side THEN dc ELSE TttFullDepth],
   moves |-> moves, sn |-> <<tttNode>>, maximizing |-> m, i |-> 0,
   pc |-> "loop", scores |-> <<>>, lingering |-> 0]

\* The games of two full searches, either side starting, and the games
\* runTest plays: a full search against a shallow one, the full one starting.
TttInit ==
  /\ \/ \E fn \in TttSequential, m \in BOOLEAN :
          game = TttGame(fn, TttFullDepth, m, TttPlies)
     \/ \E fn \in TttChoosers, dc \in TttCircleDepths :
          game = TttGame(fn, dc, FALSE, TttMoves(dc))
  /\ GenIdle
  /\ FrameIdle
  /\ NoCall
  /\ InitRest

\* sn = newNode; maximizing = !maximizing; i++
TttPass(g, newNode) ==
  [g EXCEPT !.sn = newNode, !.maximizing = ~@, !.i = @ + 1,
            !.pc = "loop", !.scores = <<>>]

\* One pass of the loop of a game whose search starts no goroutine:
\*   newNode, _ := minimaxFn(sn, depths[maximizing], maximizing)
\*   sn = newNode; maximizing = !maximizing
\* A nil sn ends the game: the next search would call a method of nil.
TttMove ==
  /\ game.fn \in TttSequential
  /\ game.i < game.moves
  /\ game.sn # <<>>
  /\ LET node == tttSearchNode(game.sn[1], game.maximizing)
     IN game' = TttPass(game,
                  TttNewNode(node, game.sn[1],
                             TttChoose(game.fn, node, game.depths[game.maximizing],
                                       game.maximizing).node))
  /\ UNCHANGED <<gen, ab, inputVars, seqVars, concVars>>

\* What a call leaves behind once it has returned: the queues and the locals
\* of the call are no longer reachable.
TttForget ==
  /\ root' = Leaf(0)
  /\ depth' = 0
  /\ maximizing' = FALSE
  /\ workers' = 0
  /\ mpc' = "entry"
  /\ spawned' = 0
  /\ jobs' = <<>>
  /\ results' = <<>>
  /\ jobsClosed' = FALSE
  /\ resultsClosed' = FALSE
  /\ totalJobsClosed' = FALSE
  /\ fpc' = "none"
  /\ fcalls' = 0
  /\ childNode' = Nil
  /\ counter' = 0
  /\ wpc' = [w \in WorkerIds |-> "none"]
  /\ wres' = [w \in WorkerIds |-> NoResult]
  /\ best' = NoResult
  /\ numResults' = 0
  /\ numJobs' = 0 - 1
  /\ ret' = <<>>
  /\ panicked' = FALSE
  /\ reordered' = FALSE
  /\ tieBroke' = FALSE
  /\ taken' = <<>>
  /\ processed' = {}
  /\ announced' = <<>>

\* minimaxFn(sn, depths[maximizing], maximizing) of the concurrent search:
\* MinimaxConcurrent(node, depth, maximizing, 2) is entered. In the base case
\* it returns node at once and the pass is over; otherwise it makes its queues
\* and goes on to start its workers.
TttCall ==
  /\ game.fn = "MinimaxConcurrent"
  /\ game.pc = "loop"
  /\ game.i < game.moves
  /\ game.sn # <<>>
  /\ LET node == tttSearchNode(game.sn[1], game.maximizing)
         d == game.depths[game.maximizing]
     IN IF ConcurrentBaseCase(node, d)
        THEN /\ game' = TttPass(game, <<game.sn[1]>>)
             /\ UNCHANGED <<inputVars, concVars>>
        ELSE /\ root' = node
             /\ depth' = d
             /\ maximizing' = game.maximizing
             /\ workers' = TttWorkers
             /\ mpc' = "spawn"
             /\ game' = [game EXCEPT !.pc = "call",
                                     !.scores = TttJobScores(node, d, game.maximizing)]
             /\ UNCHANGED <<chanVars, feederVars, workerVars, spawned, best,
                            numResults, numJobs, ret, panicked, historyVars>>
  /\ UNCHANGED <<gen, ab, seqVars>>

\* The goroutines of the call that is under way.
TttCallStep ==
  /\ game.pc = "call"
  /\ \/ SpawnWorker
     \/ SpawnFeeder
     \/ FeederGenerate
     \/ FeederSendJob
     \/ \E w \in WorkerIds : WorkerReceive(w)
     \/ \E w \in WorkerIds : WorkerSend(w)
     \/ \E w \in WorkerIds : WorkerExit(w)
     \/ ConsumerReceiveResult
     \/ ConsumerReceiveTotal
     \/ ConsumerCloseJobs
     \/ ConsumerCloseResults
     \/ ConsumerReturn

\* newNode, _ := the pair MinimaxConcurrent returned; sn = newNode;
\* maximizing = !maximizing. The workers that have not left their loop go on
\* on their own.
TttReturn ==
  /\ game.pc = "call"
  /\ ret # <<>>
  /\ game' = [TttPass(game, TttNewNode(root, game.sn[1], ret[1].node)) EXCEPT
                !.lingering = @ + Cardinality({w \in WorkerIds : wpc[w] = "recv"})]
  /\ TttForget
  /\ UNCHANGED <<gen, ab, seqVars>>

\* A worker of a call that has returned finds its queue closed and empty and
\* leaves its loop.
TttLingerExit ==
  /\ game.fn = "MinimaxConcurrent"
  /\ game.lingering > 0
  /\ game' = [game EXCEPT !.lingering = @ - 1]
  /\ UNCHANGED <<gen, ab, inputVars, seqVars, concVars>>

TttNext == TttMove \/ TttCall \/ TttCallStep \/ TttReturn \/ TttLingerExit

TttSpec == TttInit /\ [][TttNext]_vars

\* ---------------------------------------------------------------------- C1
\* C1: for depth >= 0, Minimax and MinimaxAlphaBetaPrunning return the same
\* bestScore on every tree and for either side.
C1_SameScore ==
  (mmRes # <<>> /\ abRes # <<>> /\ depth >= 0) => mmRes[1].score = abRes[1].score

\* Both ran, alpha-beta pruned (fewer generator calls) and chose another state.
C1_Witness ==
  /\ mmRes # <<>> /\ abRes # <<>> /\ depth >= 2
  /\ abRes[1].gens < mmRes[1].gens
  /\ abRes[1].node # mmRes[1].node
  /\ mmRes[1].score = abRes[1].score

\* ---------------------------------------------------------------------- C2
\* C2: for depth >= 0 and workers >= 1, whatever the interleaving, the score
\* MinimaxConcurrent returns is the score MinimaxAlphaBetaPrunning returns.
C2_ConcurrentScore ==
  (Returned /\ depth >= 0 /\ workers >= 1)
    => ret[1].score = MinimaxAlphaBetaPrunning(root, depth, maximizing).score

\* Returned after results overtook one another, with a score of the game.
C2_Witness ==
  /\ Returned /\ depth >= 1 /\ workers >= 2 /\ reordered
  /\ ret[1].score = MinimaxAlphaBetaPrunning(root, depth, maximizing).score
  /\ ret[1].score \in Scores

\* ---------------------------------------------------------------------- C3
\* C3: MinimaxConcurrent is deterministic: under every schedule and arrival
\* order it returns the pair it returns when results arrive in job order.
C3_Deterministic ==
  Returned =>
    ret[1] = IF BaseInput THEN Pair(Self, root.score)
             ELSE PairOf(InOrderBest(0, workerResult(0 - 1, Nil, Sentinel)))

\* Returned after an equal-scored result with a smaller id arrived later.
C3_Witness ==
  /\ Returned /\ reordered /\ tieBroke
  /\ ret[1] = PairOf(InOrderBest(0, workerResult(0 - 1, Nil, Sentinel)))

\* ---------------------------------------------------------------------- C4
\* C4: for depth >= 0 and workers >= 1, MinimaxConcurrent returns the very
\* state MinimaxAlphaBetaPrunning returns, nil included.
C4_SameState ==
  (Returned /\ depth >= 0 /\ workers >= 1)
    => ret[1].node = MinimaxAlphaBetaPrunning(root, depth, maximizing).node

\* Returned a child that is not the first one, and alpha-beta returns it too.
C4_Witness ==
  /\ Returned /\ depth >= 1 /\ workers >= 1
  /\ ~ret[1].node.nil /\ ret[1].node.path # <<>> /\ ret[1].node.path[1] > 1
  /\ ret[1].node = MinimaxAlphaBetaPrunning(root, depth, maximizing).node

\* ---------------------------------------------------------------------- C5
\* C5: with workers >= 1, under fair scheduling MinimaxConcurrent eventually
\* returns, also when the root has more children than the job queue holds.
C5_EventuallyReturns == (workers >= 1) => <>Returned

\* Returned from a root with more children than the job queue's capacity.
C5_Witness == Returned /\ workers >= 1 /\ Len(root.kids) > workers * QueueFactor

\* ---------------------------------------------------------------------- C6
\* C6: no task leaks: when the consumer has returned from the non-base case,
\* exactly `workers` workers and one feeder were started and the feeder has
\* terminated, and from then on every worker eventually terminates.
AllWorkersDone == \A w \in WorkerIds : wpc[w] \in {"none", "done"}
C6_Started ==
  (Returned /\ ~BaseInput) =>
    /\ spawned = workers
    /\ \A w \in WorkerIds : (wpc[w] # "none") <=> (w <= workers)
    /\ fpc = "done"
C6_NoLeak == [](C6_Started) /\ ((Returned /\ ~BaseInput) ~> AllWorkersDone)

\* Every started worker of a two-worker call has terminated after the return.
C6_Witness ==
  /\ Returned /\ ~BaseInput /\ workers >= 2 /\ numResults >= 2
  /\ \A w \in WorkerIds : wpc[w] = "done"
  /\ fpc = "done"

\* ---------------------------------------------------------------------- C7
\* C7: when depth = 0 or the state is terminal, each of the three searches
\* returns (state, state.Score()) without invoking a successor generator, and
\* MinimaxConcurrent starts no worker and no feeder.
C7_BaseCase ==
  (depth = 0 \/ root.term) =>
    /\ Minimax(root, depth, maximizing) = Result(Self, root.score, 0)
    /\ MinimaxAlphaBetaPrunning(root, depth, maximizing) = Result(Self, root.score, 0)
    /\ spawned = 0 /\ fpc = "none" /\ fcalls = 0
    /\ \A w \in WorkerIds : wpc[w] = "none"
    /\ Returned => ret[1] = Pair(Self, root.score)

\* MinimaxConcurrent returned at depth 0 from a state that has successors.
C7_Witness ==
  /\ Returned /\ depth = 0 /\ ~root.term /\ Len(root.kids) >= 2 /\ workers >= 1
  /\ ret[1] = Pair(Self, root.score)

\* ---------------------------------------------------------------------- C8
\* C8: for depth < 0 each of the three searches returns (state, state.Score())
\* at once, expanding no successor.
C8_NegativeDepth ==
  (depth < 0) =>
    /\ Minimax(root, depth, maximizing) = Result(Self, root.score, 0)
    /\ MinimaxAlphaBetaPrunning(root, depth, maximizing) = Result(Self, root.score, 0)
    /\ spawned = 0 /\ fpc = "none" /\ fcalls = 0
    /\ Returned => ret[1] = Pair(Self, root.score)

\* ---------------------------------------------------------------------- C9
\* C9: on a non-terminal state without successors and depth >= 1, each of the
\* three searches returns nil with the sentinel of the side to move, and the
\* concurrent one announces 0 jobs and consumes no result.
C9_EmptySuccessors ==
  (~root.term /\ depth >= 1 /\ root.kids = <<>>) =>
    /\ PairOf(Minimax(root, depth, maximizing)) = Pair(Nil, Sentinel)
    /\ PairOf(MinimaxAlphaBetaPrunning(root, depth, maximizing)) = Pair(Nil, Sentinel)
    /\ counter = 0 /\ numResults = 0
    /\ Returned => (ret[1] = Pair(Nil, Sentinel) /\ numJobs = 0)

\* MinimaxConcurrent returned from a state without successors.
C9_Witness ==
  /\ Returned /\ ~root.term /\ depth >= 1 /\ root.kids = <<>> /\ workers >= 1
  /\ numJobs = 0 /\ ret[1].node = Nil

\* --------------------------------------------------------------------- C10
\* C10: in the non-base case each of the three searches returns nil exactly
\* when the root has no successor.
C10_NilIffNoChildren ==
  (depth >= 1 /\ ~root.term) =>
    /\ (Minimax(root, depth, maximizing).node = Nil) <=> (root.kids = <<>>)
    /\ (MinimaxAlphaBetaPrunning(root, depth, maximizing).node = Nil) <=> (root.kids = <<>>)
    /\ Returned => ((ret[1].node = Nil) <=> (root.kids = <<>>))

\* --------------------------------------------------------------------- C11
\* The ids of a set of results, and the ids of a sequence of jobs taken.
IdsOf(rs) == {r.jobId : r \in rs}
Range(seq) == {seq[i] : i \in 1..Len(seq)}

\* C11: MinimaxConcurrent has no partial-result path. No job id is received by
\* a worker twice and no id is consumed twice; when the call returns from the
\* non-base case the feeder has announced n, the number of children, the
\* consumer has consumed exactly n results, one for each id 0..n-1, every job
\* 0..n-1 was received by a worker exactly once, and no job or result is left
\* in a queue or in a worker's hands.
C11_NoPartialResult ==
  /\ Cardinality(Range(taken)) = Len(taken)
  /\ Cardinality(IdsOf(processed)) = numResults
  /\ (Returned /\ ~BaseInput) =>
       /\ fpc = "done"
       /\ numJobs = Len(root.kids) /\ numJobs = counter
       /\ numResults = numJobs
       /\ IdsOf(processed) = 0..(numJobs - 1)
       /\ Len(taken) = numJobs /\ Range(taken) = 0..(numJobs - 1)
       /\ jobs = <<>> /\ results = <<>>
       /\ \A w \in WorkerIds : wpc[w] # "send"

\* Returned after two workers shared the jobs of a root with several children
\* and the results arrived out of order.
C11_Witness ==
  /\ Returned /\ workers >= 2 /\ Len(root.kids) >= 2 /\ reordered
  /\ numJobs = Len(root.kids) /\ numResults = numJobs
  /\ IdsOf(processed) = 0..(numJobs - 1)

\* --------------------------------------------------------------------- C12
\* C12: exhaustion is idempotent for the generators of both games: once an
\* invocation of a generator has returned nil, every later invocation of that
\* generator returns nil.
C12_ExhaustionIdempotent ==
  \A i, j \in 1..Len(gen.out) : (i < j /\ gen.out[i] = <<>>) => gen.out[j] = <<>>

\* --------------------------------------------------------------------- C13
\* The side that made the first move of the game.
GameFirst == IF game.i % 2 = 0 THEN game.maximizing ELSE ~game.maximizing

GameBothFull == game.depths[TRUE] = TttFullDepth /\ game.depths[FALSE] = TttFullDepth

\* C13: in a game from the empty board in which both sides choose every move
\* with Minimax at depth 9, or both with MinimaxAlphaBetaPrunning at depth 9,
\* whichever side starts, no search returns nil and the board after 9 plies
\* is terminal with score 0.
C13_OptimalDraw ==
  (game.fn \in {"Minimax", "MinimaxAlphaBetaPrunning"} /\ GameBothFull) =>
     /\ game.sn # <<>>
     /\ game.i = TttPlies => (tttIsTerminal(game.sn[1]) /\ tttScore(game.sn[1]) = 0)

C13_Witness ==
  /\ game.fn = "Minimax" /\ GameBothFull /\ game.i = TttPlies /\ GameFirst
  /\ game.sn # <<>> /\ tttIsTerminal(game.sn[1]) /\ tttScore(game.sn[1]) = 0
  /\ numberEmptySquares(game.sn[1]) = 0

\* --------------------------------------------------------------------- C14
\* C14: in a game from the empty board in which cross moves first and searches
\* at depth 9, with each of the three searches as the chooser: if circle
\* searches at depth 1 the board after 5 plies is terminal with a negative
\* score, and if circle searches at depth 2 the board after 7 plies is.
C14_OptimalBeatsShallow ==
  (game.fn \in TttChoosers /\ ~GameFirst /\ game.depths[FALSE] = TttFullDepth) =>
     /\ (game.depths[TRUE] = 1 /\ game.i = 5) =>
          (game.sn # <<>> /\ tttIsTerminal(game.sn[1]) /\ tttScore(game.sn[1]) < 0)
     /\ (game.depths[TRUE] = 2 /\ game.i = 7) =>
          (game.sn # <<>> /\ tttIsTerminal(game.sn[1]) /\ tttScore(game.sn[1]) < 0)

C14_Witness ==
  /\ game.fn = "MinimaxConcurrent" /\ ~GameFirst /\ game.depths[FALSE] = TttFullDepth
  /\ game.depths[TRUE] = 2 /\ game.i = 7 /\ game.i = game.moves
  /\ game.pc = "loop" /\ game.lingering > 0
  /\ game.sn # <<>> /\ tttIsTerminal(game.sn[1]) /\ tttScore(game.sn[1]) < 0

\* --------------------------------------------------------------------- C15
\* The minimax value of node searched d plies deep for the side m: the score
\* of a node at which the search stops, otherwise the best of the values of
\* the children for m, the sentinel of m if there is none.
RECURSIVE MinimaxValue(_, _, _)
MinimaxValue(node, d, m) ==
  IF d = 0 \/ node.term THEN node.score
  ELSE LET vs == {MinimaxValue(Child(node, Ref(<<k>>)), d - 1, ~m) :
                    k \in 1..Len(node.kids)}
       IN IF vs = {} THEN MinimaxInitScore(m)
          ELSE IF m THEN CHOOSE v \in vs : \A u \in vs : u <= v
          ELSE CHOOSE v \in vs : \A u \in vs : u >= v

\* The children of the root whose value one ply less deep is the root's.
OptimalChildren ==
  {k \in 1..Len(root.kids) :
     MinimaxValue(root.kids[k], depth - 1, ~maximizing)
       = MinimaxValue(root, depth, maximizing)}

\* C15: when Minimax is called on a root that is no base case and has a child,
\* the state it returns is the last-generated of the children whose minimax
\* value at depth - 1 is the optimal one, for either side.
C15_LastOptimalChild ==
  (mmRes # <<>> /\ ~MinimaxBaseCase(root, depth) /\ Len(root.kids) >= 1) =>
     /\ OptimalChildren # {}
     /\ mmRes[1].node = Ref(<<CHOOSE k \in OptimalChildren :
                                 \A j \in OptimalChildren : j <= k>>)
     /\ mmRes[1].score = MinimaxValue(root, depth, maximizing)

\* Minimax returned the second of two children that share the optimal value
\* and are themselves searched.
C15_Witness ==
  /\ mmRes # <<>> /\ depth >= 2 /\ Len(root.kids) = 2
  /\ ~root.kids[1].term /\ OptimalChildren = {1, 2}
  /\ mmRes[1].node = Ref(<<2>>)

\* --------------------------------------------------------------------- C16
\* MinimaxAlphaBetaPrunning has returned.
FrameReturned == ab.called /\ ab.stack = <<>> /\ ab.ret # <<>>

\* C16: in a frame of minimaxAlphaBetaPrunningImpl a child replaces the best
\* only when its returned score is strictly greater than the current alpha
\* (maximizing) or strictly less than the current beta (minimizing), and when
\* the root is no base case and has a child, MinimaxAlphaBetaPrunning returns
\* the first-generated of the children whose minimax value at depth - 1 is the
\* optimal one.
C16_StrictFirstOptimalChild ==
  /\ ~ab.lax
  /\ (FrameReturned /\ ~AlphaBetaBaseCase(root, depth) /\ Len(root.kids) >= 1) =>
       /\ OptimalChildren # {}
       /\ ab.ret[1].node = Ref(<<CHOOSE k \in OptimalChildren :
                                  \A j \in OptimalChildren : k <= j>>)

\* C16 on the roots whose optimal value is not the sentinel of the side to
\* move, that is, outside the inputs of C10.
C16_ExceptSentinel ==
  /\ ~ab.lax
  /\ (FrameReturned /\ ~AlphaBetaBaseCase(root, depth) /\ Len(root.kids) >= 1
        /\ MinimaxValue(root, depth, maximizing) # MinimaxInitScore(maximizing)) =>
       /\ OptimalChildren # {}
       /\ ab.ret[1].node = Ref(<<CHOOSE k \in OptimalChildren :
                                  \A j \in OptimalChildren : k <= j>>)

\* --------------------------------------------------------------------- C19
\* C19: a frame of minimaxAlphaBetaPrunningImpl in which alpha >= beta holds
\* after a child was processed stops: it stands at its return, so its
\* generator is not invoked again and no further child is searched; hence
\* alpha < beta in every frame that is entered and at every recursive call.
C19_PruningCut ==
  \A i \in 1..Len(ab.stack) :
     /\ ab.stack[i].alpha >= ab.stack[i].beta =>
          (i = Len(ab.stack) /\ ab.stack[i].pc = "return")
     /\ ab.stack[i].pc \in {"generate", "call", "update"} =>
          ab.stack[i].alpha < ab.stack[i].beta

\* A frame was cut below the root with a child still to generate.
C19_Witness ==
  /\ Len(ab.stack) >= 2
  /\ Top.pc = "return"
  /\ Top.alpha >= Top.beta
  /\ Top.calls < Len(Top.node.kids)

\* --------------------------------------------------------------------- C17
\* The consumer runs: it has set up best and has not returned.
ConsumerRuns == mpc \in {"select", "closeJobs", "closeResults", "closeTotalJobs"}

\* result is as good as any processed result for the side to move.
OptimalProcessed(result) ==
  \A r \in processed : IF maximizing THEN r.score <= result.score
                                     ELSE r.score >= result.score

\* C17: while the consumer runs, before it has processed a result its best is
\* {-1, nil, sentinel}; after it has processed some results, in whatever
\* order, its best is the processed result with the optimal score for the
\* side to move and, among the processed results with that score, the one
\* with the smallest id.
C17_ConsumerBest ==
  ConsumerRuns =>
     /\ processed = {} =>
          best = workerResult(0 - 1, Nil, MinimaxInitScore(maximizing))
     /\ processed # {} =>
          /\ best \in processed
          /\ OptimalProcessed(best)
          /\ \A r \in processed : r.score = best.score => best.jobId <= r.jobId

\* C17 as long as no processed result carries the sentinel of the side to
\* move, that is, outside the inputs of C10.
C17_ExceptSentinel ==
  (ConsumerRuns /\ \A r \in processed : r.score # MinimaxInitScore(maximizing)) =>
     /\ processed = {} =>
          best = workerResult(0 - 1, Nil, MinimaxInitScore(maximizing))
     /\ processed # {} =>
          /\ best \in processed
          /\ OptimalProcessed(best)
          /\ \A r \in processed : r.score = best.score => best.jobId <= r.jobId

\* --------------------------------------------------------------------- C18
\* C18: the k-th child the root's generator produces (k = 0, 1, ...) is placed
\* on the job queue as the job with id k, depth - 1 and the other side, so the
\* ids are unique and contiguous; the job count is sent on totalJobs at most
\* once, and exactly once in a call that returns, only when the generator is
\* exhausted and every job has been placed, and it is the number of children
\* the generator produced.
C18_FeederProtocol ==
  /\ Len(taken) + Len(jobs) = counter
  /\ \A i \in 1..Len(jobs) :
       LET k == Len(taken) + i - 1
       IN jobs[i] = [id |-> k, node |-> SearchNodeGenerator(root, k),
                     depth |-> depth - 1, maximizing |-> ~maximizing]
  /\ \A i \in 1..Len(taken) : taken[i] = i - 1
  /\ Len(announced) <= 1
  /\ (fpc = "done") = (announced # <<>>)
  /\ (Returned /\ ~BaseInput) => Len(announced) = 1
  /\ numJobs >= 0 => announced = <<numJobs>>
  /\ announced # <<>> =>
       /\ announced[1] = counter
       /\ announced[1] = Len(root.kids)
       /\ fcalls = announced[1] + 1
       /\ SearchNodeGenerator(root, announced[1]) = Nil

\* The feeder had to wait for room in the job queue, placed every child and
\* announced the count.
C18_Witness ==
  /\ announced = <<Len(root.kids)>>
  /\ Len(root.kids) > Capacity
  /\ counter = Len(root.kids)
  /\ taken # <<>>
  /\ taken[Len(taken)] = Len(root.kids) - 1

\* --------------------------------------------------------------------- C20
\* C20: in every state of MinimaxConcurrent at most 5 * workers jobs wait in
\* the job queue and at most 5 * workers results in the result queue, however
\* many children the root has; with the job queue full the feeder stands at
\* its send.
C20_QueueBounds ==
  /\ Len(jobs) <= QueueFactor * workers
  /\ Len(results) <= QueueFactor * workers

\* The job queue is full and the feeder waits with a further child.
C20_Witness ==
  /\ workers >= 1
  /\ Len(jobs) = QueueFactor * workers
  /\ fpc = "sendJob"
  /\ ~ENABLED FeederSendJob
  /\ Len(root.kids) > QueueFactor * workers

\* --------------------------------------------------------------------- C21
\* The consumer has decided to close the channels, or has closed some or all
\* of them.
ConsumerCloses == mpc \in {"closeJobs", "closeResults", "closeTotalJobs"} \/ jobsClosed

\* C21: no goroutine ever sends on or closes a closed channel (no such panic
\* in any interleaving), each channel is closed by the consumer only, in the
\* order jobs, results, totalJobs; and from the moment the consumer goes to
\* close them the feeder has made its final send and returned, the job queue
\* is empty and no worker holds a job or an unsent result.
C21_ClosureSafety ==
  /\ ~panicked
  /\ jobsClosed => mpc \in {"closeResults", "closeTotalJobs", "done"}
  /\ resultsClosed => (jobsClosed /\ mpc \in {"closeTotalJobs", "done"})
  /\ totalJobsClosed => (resultsClosed /\ mpc = "done")
  /\ ConsumerCloses =>
       /\ fpc = "done"
       /\ jobs = <<>>
       /\ \A w \in WorkerIds : wpc[w] # "send" /\ wres[w] = NoResult

\* The consumer closes the result queue after several workers solved jobs
\* and the results arrived out of order; a worker has already left its loop.
C21_Witness ==
  /\ mpc = "closeResults"
  /\ jobsClosed /\ ~resultsClosed
  /\ workers >= 2 /\ numJobs >= 2
  /\ reordered
  /\ \E w \in WorkerIds : wpc[w] = "done"
  /\ \E w \in WorkerIds : wpc[w] = "recv"

\* --------------------------------------------------------------------- C22
\* A call without workers on a non-terminal root at depth >= 1, with and
\* without children.
ZeroWorkersChildren == workers = 0 /\ ~root.term /\ depth >= 1 /\ root.kids # <<>>
ZeroWorkersNoChildren == workers = 0 /\ ~root.term /\ depth >= 1 /\ root.kids = <<>>

\* The feeder stands at the send of its first job and the consumer at its
\* select.
ZeroWorkersBlocked == fpc = "sendJob" /\ mpc = "select" /\ counter = 0 /\ fcalls = 1

\* C22: with workers = 0, a non-terminal root, depth >= 1 and at least one
\* child, MinimaxConcurrent never returns: the job queue has capacity 0 and no
\* worker was started, so no job is ever placed and no count announced, and
\* under fair scheduling the call ends up for ever with the feeder blocked at
\* the send of its first job and the consumer blocked at its select; with
\* workers = 0 and no children it eventually returns, and returns
\* (nil, sentinel).
C22_ZeroWorkers ==
  /\ [](ZeroWorkersChildren =>
         /\ ~Returned
         /\ Capacity = 0 /\ spawned = 0
         /\ jobs = <<>> /\ counter = 0 /\ numJobs = 0 - 1 /\ numResults = 0)
  /\ []((ZeroWorkersNoChildren /\ Returned) => ret[1] = Pair(Nil, Sentinel))
  /\ <>[](/\ ZeroWorkersChildren => ZeroWorkersBlocked
          /\ ZeroWorkersNoChildren => Returned)

\* The call without workers is stuck: the feeder holds the first of two
\* children, the consumer waits, and no step is possible.
C22_Witness ==
  /\ ZeroWorkersChildren /\ Len(root.kids) >= 2
  /\ ZeroWorkersBlocked
  /\ childNode = Ref(<<1>>)
  /\ ~ENABLED Next

\* --------------------------------------------------------------------- C23
\* The children the root's generator produces.
GeneratedChildren == {SearchNodeGenerator(root, k) : k \in 0..(Len(root.kids) - 1)}

\* A returned (bestState, bestScore) with a non-nil state names a generated
\* child of the root and that child's minimax value one ply less deep for the
\* other side.
ConsistentResult(r) ==
  r.node # Nil =>
    /\ r.node \in GeneratedChildren
    /\ r.node # Self /\ Len(r.node.path) = 1
    /\ r.score = MinimaxValue(Child(root, r.node), depth - 1, ~maximizing)

\* C23: in the non-base case (depth >= 1, non-terminal root), whenever
\* Minimax, MinimaxAlphaBetaPrunning or MinimaxConcurrent returns a non-nil
\* state, the state is one of the children the root's generator produces,
\* never the root or a deeper descendant, and the returned score is the
\* minimax value of that child at depth - 1 with the side flipped.
C23_ResultConsistency ==
  (depth >= 1 /\ ~root.term) =>
    /\ ConsistentResult(Minimax(root, depth, maximizing))
    /\ ConsistentResult(MinimaxAlphaBetaPrunning(root, depth, maximizing))
    /\ Returned => ConsistentResult(ret[1])

\* Each of the three searches returned a child of a root whose children are
\* searched below themselves, MinimaxConcurrent after results arrived out of
\* job order.
C23_Witness ==
  /\ Returned /\ depth >= 2 /\ ~root.term /\ Len(root.kids) >= 2
  /\ \E k \in 1..Len(root.kids) : ~root.kids[k].term /\ root.kids[k].kids # <<>>
  /\ reordered
  /\ ret[1].node # Nil
  /\ Minimax(root, depth, maximizing).node # Nil
  /\ MinimaxAlphaBetaPrunning(root, depth, maximizing).node # Nil
  /\ ret[1].score # root.kids[ret[1].node.path[1]].score

\* --------------------------------------------------------------------- C24
\* What the first n invocations of a generator of gen.state return when no
\* other generator exists: run(n) is the captured variables after them and
\* the sequence of what they returned.
RECURSIVE tttAlone(_)
tttAlone(n) ==
  IF n = 0 THEN [x |-> 0, y |-> 0, out |-> <<>>]
  ELSE LET p == tttAlone(n - 1)
           r == tttGenerator(gen.state, p.x, p.y, gen.side)
       IN [x |-> r.x, y |-> r.y, out |-> Append(p.out, r.node)]

RECURSIVE cAlone(_)
cAlone(n) ==
  IF n = 0 THEN [nodeQueue |-> <<>>, index |-> 0, out |-> <<>>]
  ELSE LET p == cAlone(n - 1)
           r == cGenerator(gen.state, p.nodeQueue, p.index, gen.side)
       IN [nodeQueue |-> r.nodeQueue, index |-> r.index, out |-> Append(p.out, r.node)]

Alone(n) == IF gen.game = "ttt" THEN tttAlone(n).out ELSE cAlone(n).out

\* The empty squares of a tic-tac-toe board in the order of the generator:
\* row by row, in a row from x = 0 on.
tttEmptySquares(b) ==
  LET from == [k \in 0..8 |-> <<(k \div 3) + 1, (k % 3) + 1>>]
      RECURSIVE scan(_)
      scan(k) == IF k > 8 THEN <<>>
                 ELSE IF b[from[k][1]][from[k][2]] = empty
                      THEN <<from[k]>> \o scan(k + 1)
                      ELSE scan(k + 1)
  IN scan(0)

\* What generator i returned before its first nil.
BeforeNil(i) ==
  LET o == gen.outs[i]
      first == CHOOSE k \in 1..Len(o) : o[k] = <<>> /\ \A j \in 1..(k - 1) : o[j] # <<>>
  IN [k \in 1..(first - 1) |-> o[k][1]]

\* The state and the copies the closures hold are as the state was handed
\* out: the same board, Score() and IsTerminal().
ParentUntouched ==
  \A i \in Generators :
    /\ gen.cells[i].node = gen.state
    /\ gen.game = "ttt" =>
         /\ tttScore(gen.cells[i].node) = tttScore(gen.state)
         /\ tttIsTerminal(gen.cells[i].node) = tttIsTerminal(gen.state)

\* C24: two generators obtained from the same state by separate calls of
\* SearchNodeGenerator(), invoked in any interleaving for the same side, each
\* return what a generator invoked alone returns, in the same order, so both
\* yield the same sequence of children; a tic-tac-toe generator has yielded,
\* when it first returns nil, one child for every empty square, row by row;
\* and no invocation changes the state the generators were obtained from
\* (its board, Score() and IsTerminal()) or the copy a closure holds.
C24_GeneratorIndependence ==
  /\ [](\A i \in Generators :
          /\ gen.outs[i] = Alone(Len(gen.outs[i]))
          /\ (gen.game = "ttt" /\ PairNils(i) >= 1) =>
               BeforeNil(i) = [k \in 1..Len(tttEmptySquares(gen.state)) |->
                                 [gen.state EXCEPT ![tttEmptySquares(gen.state)[k][1]]
                                                    [tttEmptySquares(gen.state)[k][2]]
                                                      = tttSymbol(gen.side)]])
  /\ []ParentUntouched
  /\ [][gen.state' = gen.state /\ gen.side' = gen.side]_vars

\* The first generator of a state with several children is exhausted while
\* the second has yielded its first children only, after the invocations of
\* the two alternated.
C24_Witness ==
  /\ PairNils(1) >= 1 /\ PairNils(2) = 0
  /\ Len(gen.outs[1]) >= 3
  /\ Len(gen.outs[2]) >= 1 /\ Len(gen.outs[2]) < Len(gen.outs[1]) - 1
  /\ gen.outs[2][1] = gen.outs[1][1]

\* --------------------------------------------------------------------- C25
\* The contract of a search with the window (a, b) on a node of minimax
\* value v that returned the score sc.
WindowContract(v, a, b, sc) ==
  /\ (a < v /\ v < b) => sc = v
  /\ v <= a => sc <= a
  /\ v >= b => sc >= b

\* The windows minimaxAlphaBetaPrunningImpl is called with directly: the ends
\* are the two sentinels and the scores of the game and their neighbours.
WindowEnds == {MinInt, MaxInt} \cup ((0 - 1)..(MaxScore + 1))
Windows == {w \in WindowEnds \X WindowEnds : w[1] < w[2]}

\* A recursive call has returned to the frame on top, which has not yet
\* looked at the score.
CallReturned == ab.stack # <<>> /\ Top.pc = "update" /\ ab.ret # <<>>

\* C25: for depth >= 0, every call of minimaxAlphaBetaPrunningImpl that a
\* search makes has alpha < beta and returns a score that keeps the window
\* contract against the plain minimax value v of its node, depth and side
\* (exactly v inside the window, <= alpha if v <= alpha, >= beta if
\* v >= beta), and so does a direct call on the root with any window; a frame
\* with no accepted child holds, and returns, the sentinel of its side with a
\* nil state; and the score MinimaxAlphaBetaPrunning returns at the root is
\* the minimax value of the root.
C25_WindowContract ==
  depth >= 0 =>
    /\ \A i \in 1..Len(ab.stack) :
         ab.stack[i].bestNode = Nil =>
           ab.stack[i].bestScore = MinimaxInitScore(ab.stack[i].maximizing)
    /\ CallReturned =>
         /\ Top.alpha < Top.beta
         /\ WindowContract(MinimaxValue(Child(Top.node, Top.childNode), Top.depth - 1,
                                        ~Top.maximizing),
                           Top.alpha, Top.beta, ab.ret[1].score)
         /\ ab.ret[1].node = Nil =>
              ab.ret[1].score = MinimaxInitScore(~Top.maximizing)
    /\ FrameReturned =>
         /\ ab.ret[1].score = MinimaxValue(root, depth, maximizing)
         /\ \A w \in Windows :
              WindowContract(MinimaxValue(root, depth, maximizing), w[1], w[2],
                             minimaxAlphaBetaPrunningImpl(root, depth, w[1], w[2],
                                                          maximizing).score)

\* A frame below the root in which no child was accepted has returned the
\* sentinel with a nil state although its node has children, so the score is
\* not the value of the node; the value lies at or below the caller's alpha.
C25_Witness ==
  /\ depth >= 0
  /\ CallReturned
  /\ Len(ab.stack) >= 2
  /\ ab.ret[1].node = Nil
  /\ Child(Top.node, Top.childNode).kids # <<>>
  /\ Top.alpha > MinInt
  /\ ab.ret[1].score = MinInt
  /\ ab.ret[1].score # MinimaxValue(Child(Top.node, Top.childNode), Top.depth - 1,
                                     ~Top.maximizing)
====
